---- MODULE Spec2Model ----
(***************************************************************************)
(* Model of the CMS config server: the stdio tool handlers (addItem,       *)
(* deleteItem, updateItem) and the HTTP variant (the same three handlers   *)
(* behind POST routes, plus GET /api/config).  Every handler reads the     *)
(* whole config document from one store row, changes it in memory and      *)
(* writes the whole document back.                                         *)
(*                                                                         *)
(* Strings are sequences of one-character strings, so that toLowerCase,    *)
(* capitalizeFirstLetter and the template literals are computed as the     *)
(* code computes them.  An optional field is None (omitted) or Some(v).    *)
(***************************************************************************)
EXTENDS Integers, Sequences, FiniteSets, TLC

\* ------------------------------------------------------------------ bounds
\* Number of callers whose calls may overlap (SpecConc).
NumProcs == 2
\* Number of addItem / deleteItem / updateItem calls that reach a handler.
MaxCalls == 2

Procs == 1..NumProcs

\* ------------------------------------------------------ optional values
None == <<>>
Some(v) == <<v>>

\* a ?? d
Nullish(o, d) == IF o = None THEN d ELSE o[1]

\* truthiness of an optional string: undefined and "" are falsy
Truthy(o) == o # None /\ o[1] # <<>>

\* a || d, for an optional string a
OrElse(o, d) == IF Truthy(o) THEN o[1] ELSE d

\* ------------------------------------------------------------- strings
Uppers == <<"A", "B", "C", "D", "E", "F", "G", "H", "I", "J", "K", "L", "M",
            "N", "O", "P", "Q", "R", "S", "T", "U", "V", "W", "X", "Y", "Z">>
Lowers == <<"a", "b", "c", "d", "e", "f", "g", "h", "i", "j", "k", "l", "m",
            "n", "o", "p", "q", "r", "s", "t", "u", "v", "w", "x", "y", "z">>

toUpperCaseChar(c) ==
    IF \E i \in 1..Len(Lowers) : Lowers[i] = c
    THEN Uppers[CHOOSE i \in 1..Len(Lowers) : Lowers[i] = c]
    ELSE c

toLowerCaseChar(c) ==
    IF \E i \in 1..Len(Uppers) : Uppers[i] = c
    THEN Lowers[CHOOSE i \in 1..Len(Uppers) : Uppers[i] = c]
    ELSE c

\* String.prototype.toLowerCase
toLowerCase(str) == [i \in 1..Len(str) |-> toLowerCaseChar(str[i])]

\* if (!str) return str; return str.charAt(0).toUpperCase() + str.slice(1)
capitalizeFirstLetter(str) ==
    IF str = <<>> THEN str ELSE <<toUpperCaseChar(str[1])>> \o Tail(str)

\* String.prototype.includes
Contains(str, sub) ==
    \E i \in 0..(Len(str) - Len(sub)) : SubSeq(str, i + 1, i + Len(sub)) = sub

StartsWith(str, pre) ==
    Len(pre) <= Len(str) /\ SubSeq(str, 1, Len(pre)) = pre

\* the literal parts of the template strings
ItemPrefix == <<"I", "t", "e", "m", " ">>
PagePrefix == <<"P", "a", "g", "e", " ">>
WelcomePrefix == <<"W", "e", "l", "c", "o", "m", "e", " ", "t", "o", " ", "t", "h", "e", " ", "p", "a", "g", "e", " ">>
LoadFailedPrefix == <<"F", "a", "i", "l", "e", "d", " ", "t", "o", " ", "l", "o", "a", "d", " ", "c", "o", "n", "f", "i", "g", " ", "f", "r", "o", "m", " ", "d", "a", "t", "a", "b", "a", "s", "e", ":", " ">>
UpdateFailedPrefix == <<"F", "a", "i", "l", "e", "d", " ", "t", "o", " ", "u", "p", "d", "a", "t", "e", " ", "c", "o", "n", "f", "i", "g", " ", "i", "n", " ", "d", "a", "t", "a", "b", "a", "s", "e", ":", " ">>
AddFailedSidebarPrefix == <<"F", "a", "i", "l", "e", "d", " ", "t", "o", " ", "a", "d", "d", " ", "i", "t", "e", "m", ":", " ", "S", "i", "d", "e", "b", "a", "r", " ", "i", "t", "e", "m", " ", "w", "i", "t", "h", " ", "I", "D", " ">>
AddFailedPagePrefix == <<"F", "a", "i", "l", "e", "d", " ", "t", "o", " ", "a", "d", "d", " ", "i", "t", "e", "m", ":", " ", "P", "a", "g", "e", " ", "w", "i", "t", "h", " ", "I", "D", " ">>
AlreadyExistsSuffix == <<" ", "a", "l", "r", "e", "a", "d", "y", " ", "e", "x", "i", "s", "t", "s">>
AddedPrefix == <<"S", "u", "c", "c", "e", "s", "s", "f", "u", "l", "l", "y", " ", "a", "d", "d", "e", "d", " ", "i", "t", "e", "m", " ", "w", "i", "t", "h", " ", "I", "D", " ">>
DeletedPrefix == <<"S", "u", "c", "c", "e", "s", "s", "f", "u", "l", "l", "y", " ", "d", "e", "l", "e", "t", "e", "d", " ", "i", "t", "e", "m", " ", "w", "i", "t", "h", " ", "I", "D", " ">>
UpdatedPrefix == <<"S", "u", "c", "c", "e", "s", "s", "f", "u", "l", "l", "y", " ", "u", "p", "d", "a", "t", "e", "d", " ", "i", "t", "e", "m", " ", "w", "i", "t", "h", " ", "I", "D", " ">>
NotFoundPrefix == <<"I", "t", "e", "m", " ", "w", "i", "t", "h", " ", "I", "D", " ">>
NotFoundSuffix == <<" ", "n", "o", "t", " ", "f", "o", "u", "n", "d", " ", "i", "n", " ", "e", "i", "t", "h", "e", "r", " ", "s", "i", "d", "e", "b", "a", "r", " ", "o", "r", " ", "p", "a", "g", "e", "s">>
NewIdPrefix == <<"F", "a", "i", "l", "e", "d", " ", "t", "o", " ", "u", "p", "d", "a", "t", "e", " ", "i", "t", "e", "m", ":", " ", "N", "e", "w", " ", "I", "D", " ">>
ErrorExecutingPrefix == <<"E", "r", "r", "o", "r", " ", "e", "x", "e", "c", "u", "t", "i", "n", "g", " ">>
Successfully == <<"S", "u", "c", "c", "e", "s", "s", "f", "u", "l", "l", "y">>

\* -------------------------------------------------------------- arrays
\* Array.prototype.some on the id field
some(arr, id) == \E i \in 1..Len(arr) : arr[i].id = id

\* mutant: the last match (findLastIndex)
findIndex_last(arr, id) ==
    IF some(arr, id)
    THEN CHOOSE i \in 1..Len(arr) :
            arr[i].id = id /\ \A j \in (i + 1)..Len(arr) : arr[j].id # id
    ELSE -1

\* Array.prototype.findIndex on the id field: the first match (indices
\* count from 1 here), or -1
findIndex(arr, id) ==
    IF some(arr, id)
    THEN CHOOSE i \in 1..Len(arr) :
            arr[i].id = id /\ \A j \in 1..(i - 1) : arr[j].id # id
    ELSE -1

\* mutant: arr.splice(i), which removes everything from i on
splice_toEnd(arr, i) == SubSeq(arr, 1, i - 1)

\* arr.splice(i, 1)
splice(arr, i) == SubSeq(arr, 1, i - 1) \o SubSeq(arr, i + 1, Len(arr))

\* arr.push(x)
push(arr, x) == Append(arr, x)

\* { pages: [], sidebar: [] }
EmptyConfig == [pages |-> <<>>, sidebar |-> <<>>]

\* mutant: the default lacks the sidebar array
currentConfigOf_partialDefault(row) ==
    IF row.config = None THEN [pages |-> <<>>] ELSE row.config[1]

\* data.config || { pages: [], sidebar: [] }
currentConfigOf(row) == IF row.config = None THEN EmptyConfig ELSE row.config[1]

\* ------------------------------------------------- the handlers' logic
\* The part of a handler between its two awaits runs without interruption.
\* Its outcome: write = TRUE and the document to persist, or write = FALSE
\* and the text of the message returned at once.
Reject(text) == [write |-> FALSE, cfg |-> EmptyConfig, text |-> text]
Persist(cfg) == [write |-> TRUE, cfg |-> cfg, text |-> <<>>]

\* the id that addItem stores for item
addItemStoredId(v, item) ==
    IF v = "http" THEN toLowerCase(item.id) ELSE item.id

\* const sidebarItem: SidebarItem = {...}
addItemSidebarItem(v, item) ==
    [id |-> addItemStoredId(v, item),
     label |-> Nullish(item.label,
                       IF v = "http" THEN capitalizeFirstLetter(item.id)
                                     ELSE ItemPrefix \o item.id),
     active |-> Nullish(item.active, FALSE)]

\* mutant: the page keeps the id as given while the sidebar item's is folded
addItemPageItem_rawId(v, item) ==
    [id |-> item.id,
     title |-> Nullish(item.title, PagePrefix \o item.id),
     content |-> Nullish(item.content, <<>>)]

\* const pageItem: Page = {...}
addItemPageItem(v, item) ==
    [id |-> addItemStoredId(v, item),
     title |-> Nullish(item.title, PagePrefix \o item.id),
     content |-> Nullish(item.content, <<>>)]

\* mutant: the duplicate check looks at the sidebar only
addItemBody_sidebarCheckOnly(v, currentConfig, item) ==
    IF some(currentConfig.sidebar, item.id)
    THEN Reject(AddFailedSidebarPrefix \o item.id \o AlreadyExistsSuffix)
    ELSE Persist([sidebar |-> push(currentConfig.sidebar, addItemSidebarItem(v, item)),
                  pages |-> push(currentConfig.pages, addItemPageItem(v, item))])

\* mutant: the duplicate checks compare against the id as it will be stored
addItemBody_foldedCheck(v, currentConfig, item) ==
    IF some(currentConfig.sidebar, addItemStoredId(v, item))
    THEN Reject(AddFailedSidebarPrefix \o item.id \o AlreadyExistsSuffix)
    ELSE IF some(currentConfig.pages, addItemStoredId(v, item))
    THEN Reject(AddFailedPagePrefix \o item.id \o AlreadyExistsSuffix)
    ELSE Persist([sidebar |-> push(currentConfig.sidebar, addItemSidebarItem(v, item)),
                  pages |-> push(currentConfig.pages, addItemPageItem(v, item))])

\* addItem, from the duplicate checks to the two push calls
addItemBody(v, currentConfig, item) ==
    IF some(currentConfig.sidebar, item.id)
    THEN Reject(AddFailedSidebarPrefix \o item.id \o AlreadyExistsSuffix)
    ELSE IF some(currentConfig.pages, item.id)
    THEN Reject(AddFailedPagePrefix \o item.id \o AlreadyExistsSuffix)
    ELSE Persist([sidebar |-> push(currentConfig.sidebar, addItemSidebarItem(v, item)),
                  pages |-> push(currentConfig.pages, addItemPageItem(v, item))])

\* mutant: not found unless both sequences hold the id (|| for &&)
deleteItemBody_eitherMissing(currentConfig, id) ==
    LET sidebarIndex == findIndex(currentConfig.sidebar, id)
        pageIndex == findIndex(currentConfig.pages, id)
    IN  IF sidebarIndex = -1 \/ pageIndex = -1
        THEN Reject(NotFoundPrefix \o id \o NotFoundSuffix)
        ELSE Persist([sidebar |-> splice(currentConfig.sidebar, sidebarIndex),
                      pages |-> splice(currentConfig.pages, pageIndex)])

\* mutant: the page is left in place
deleteItemBody_sidebarOnly(currentConfig, id) ==
    LET sidebarIndex == findIndex(currentConfig.sidebar, id)
        pageIndex == findIndex(currentConfig.pages, id)
    IN  IF sidebarIndex = -1 /\ pageIndex = -1
        THEN Reject(NotFoundPrefix \o id \o NotFoundSuffix)
        ELSE Persist([sidebar |-> IF sidebarIndex # -1
                                  THEN splice(currentConfig.sidebar, sidebarIndex)
                                  ELSE currentConfig.sidebar,
                      pages |-> currentConfig.pages])

\* deleteItem, from the two findIndex calls to the two splice calls
deleteItemBody(currentConfig, id) ==
    LET sidebarIndex == findIndex(currentConfig.sidebar, id)
        pageIndex == findIndex(currentConfig.pages, id)
    IN  IF sidebarIndex = -1 /\ pageIndex = -1
        THEN Reject(NotFoundPrefix \o id \o NotFoundSuffix)
        ELSE Persist([sidebar |-> IF sidebarIndex # -1
                                  THEN splice(currentConfig.sidebar, sidebarIndex)
                                  ELSE currentConfig.sidebar,
                      pages |-> IF pageIndex # -1
                                THEN splice(currentConfig.pages, pageIndex)
                                ELSE currentConfig.pages])

\* the id that updateItem stores in a matched entry
updateItemStoredId(v, existingId, oldId, newItem) ==
    IF v = "http"
    THEN \* newItem.id?.toLowerCase() || oldId
         IF newItem.id = None THEN oldId
         ELSE OrElse(Some(toLowerCase(newItem.id[1])), oldId)
    ELSE \* newItem.id ?? currentConfig.sidebar[sidebarIndex].id
         Nullish(newItem.id, existingId)

\* currentConfig.sidebar[sidebarIndex] = {...}
updateItemSidebarItem(v, existing, oldId, newItem) ==
    IF v = "http"
    THEN [id |-> updateItemStoredId(v, existing.id, oldId, newItem),
          label |-> OrElse(newItem.label,
                           capitalizeFirstLetter(OrElse(newItem.id, oldId))),
          active |-> Nullish(newItem.active, FALSE)]
    ELSE [id |-> updateItemStoredId(v, existing.id, oldId, newItem),
          label |-> Nullish(newItem.label, existing.label),
          active |-> Nullish(newItem.active, existing.active)]

\* currentConfig.pages[pageIndex] = {...}
updateItemPageItem(v, existing, oldId, newItem) ==
    IF v = "http"
    THEN [id |-> updateItemStoredId(v, existing.id, oldId, newItem),
          title |-> OrElse(newItem.title, PagePrefix \o OrElse(newItem.id, oldId)),
          content |-> OrElse(newItem.content,
                             WelcomePrefix \o OrElse(newItem.id, oldId))]
    ELSE [id |-> updateItemStoredId(v, existing.id, oldId, newItem),
          title |-> Nullish(newItem.title, existing.title),
          content |-> Nullish(newItem.content, existing.content)]

\* if (newItem.id && newItem.id !== oldId) { if (some || some) ... }
updateItemCollides(currentConfig, oldId, newItem) ==
    /\ Truthy(newItem.id)
    /\ newItem.id[1] # oldId
    /\ \/ some(currentConfig.sidebar, newItem.id[1])
       \/ some(currentConfig.pages, newItem.id[1])

\* mutant: the not-found check is missing
updateItemBody_noNotFound(v, currentConfig, oldId, newItem) ==
    LET sidebarIndex == findIndex(currentConfig.sidebar, oldId)
        pageIndex == findIndex(currentConfig.pages, oldId)
    IN  IF updateItemCollides(currentConfig, oldId, newItem)
        THEN Reject(NewIdPrefix \o newItem.id[1] \o AlreadyExistsSuffix)
        ELSE Persist(
          [sidebar |-> IF sidebarIndex # -1
                       THEN [currentConfig.sidebar EXCEPT ![sidebarIndex] =
                               updateItemSidebarItem(v, @, oldId, newItem)]
                       ELSE currentConfig.sidebar,
           pages |-> IF pageIndex # -1
                     THEN [currentConfig.pages EXCEPT ![pageIndex] =
                             updateItemPageItem(v, @, oldId, newItem)]
                     ELSE currentConfig.pages])

\* updateItem, from the two findIndex calls to the two assignments
updateItemBody(v, currentConfig, oldId, newItem) ==
    LET sidebarIndex == findIndex(currentConfig.sidebar, oldId)
        pageIndex == findIndex(currentConfig.pages, oldId)
    IN  IF sidebarIndex = -1 /\ pageIndex = -1
        THEN Reject(NotFoundPrefix \o oldId \o NotFoundSuffix)
        ELSE IF updateItemCollides(currentConfig, oldId, newItem)
        THEN Reject(NewIdPrefix \o newItem.id[1] \o AlreadyExistsSuffix)
        ELSE Persist(
          [sidebar |-> IF sidebarIndex # -1
                       THEN [currentConfig.sidebar EXCEPT ![sidebarIndex] =
                               updateItemSidebarItem(v, @, oldId, newItem)]
                       ELSE currentConfig.sidebar,
           pages |-> IF pageIndex # -1
                     THEN [currentConfig.pages EXCEPT ![pageIndex] =
                             updateItemPageItem(v, @, oldId, newItem)]
                     ELSE currentConfig.pages])

\* the synchronous part of the handler of a call
HandlerBody(v, call, currentConfig) ==
    CASE call.op = "addItem" -> addItemBody(v, currentConfig, call.arg.item)
      [] call.op = "deleteItem" -> deleteItemBody(currentConfig, call.arg.id)
      [] call.op = "updateItem" ->
             updateItemBody(v, currentConfig, call.arg.oldId, call.arg.newItem)

\* the first line of the message returned after a successful write (the
\* JSON rendering of the entries that follows it is left out)
SuccessText(call) ==
    CASE call.op = "addItem" -> AddedPrefix \o call.arg.item.id
      [] call.op = "deleteItem" -> DeletedPrefix \o call.arg.id
      [] call.op = "updateItem" -> UpdatedPrefix \o call.arg.oldId

\* ------------------------------------------------- faults while handling
AddFaultPrefix == <<"F", "a", "i", "l", "e", "d", " ", "t", "o", " ", "a", "d", "d", " ", "i", "t", "e", "m", ":", " ">>
DeleteFaultPrefix == <<"F", "a", "i", "l", "e", "d", " ", "t", "o", " ", "d", "e", "l", "e", "t", "e", " ", "i", "t", "e", "m", ":", " ">>
UpdateFaultPrefix == <<"F", "a", "i", "l", "e", "d", " ", "t", "o", " ", "u", "p", "d", "a", "t", "e", " ", "i", "t", "e", "m", ":", " ">>
CannotReadPrefix == <<"C", "a", "n", "n", "o", "t", " ", "r", "e", "a", "d", " ", "p", "r", "o", "p", "e", "r", "t", "i", "e", "s", " ", "o", "f", " ", "u", "n", "d", "e", "f", "i", "n", "e", "d", " ", "(", "r", "e", "a", "d", "i", "n", "g", " ", "'">>
CannotReadSuffix == <<"'", ")">>
SomeName == <<"s", "o", "m", "e">>
FindIndexName == <<"f", "i", "n", "d", "I", "n", "d", "e", "x">>

\* message of the TypeError raised by undefined.method(...)
TypeErrorMessage(method) == CannotReadPrefix \o method \o CannotReadSuffix

\* the fault raised between the handler's two awaits, if any: a stored
\* document without its sidebar or pages array makes the first method call
\* on the missing array throw
RaisedFault(call, currentConfig) ==
    LET hasSidebar == "sidebar" \in DOMAIN currentConfig
        hasPages == "pages" \in DOMAIN currentConfig
    IN  IF call.op = "addItem"
        THEN IF ~hasSidebar THEN Some(TypeErrorMessage(SomeName))
             ELSE IF some(currentConfig.sidebar, call.arg.item.id) THEN None
             ELSE IF ~hasPages THEN Some(TypeErrorMessage(SomeName))
             ELSE None
        ELSE IF ~hasSidebar \/ ~hasPages
             THEN Some(TypeErrorMessage(FindIndexName))
             ELSE None

\* an error that leaves the handler instead of a returned message
Thrown(message) ==
    [write |-> FALSE, cfg |-> EmptyConfig, text |-> message, thrown |-> TRUE]
IsThrown(r) == "thrown" \in DOMAIN r

FaultPrefix(op) ==
    CASE op = "addItem" -> AddFaultPrefix
      [] op = "deleteItem" -> DeleteFaultPrefix
      [] op = "updateItem" -> UpdateFaultPrefix

\* mutant: the handler has no catch clause
handlerCatch_rethrow(op, message) == Thrown(message)

\* catch (error: any) { return { content: [{ type: "text", text: ... }] } }
handlerCatch(op, message) == Reject(FaultPrefix(op) \o message)

\* the handler from the select's resolution to its next await or return
HandlerOutcome(v, call, currentConfig) ==
    LET fault == RaisedFault(call, currentConfig)
    IN  IF fault # None THEN handlerCatch(call.op, fault[1])
                        ELSE HandlerBody(v, call, currentConfig)

\* ------------------------------------------------------------- inputs
\* ids the callers use: the empty string, two that differ in case only,
\* and an unrelated one
Ids == {<<>>, <<"a">>, <<"A">>, <<"b">>}

NoFields == [label |-> None, title |-> None, content |-> None, active |-> None]

\* the optional fields of an addItem request
AddFields ==
    {NoFields,
     [label |-> Some(<<"L">>), title |-> Some(<<"T">>),
      content |-> Some(<<"C">>), active |-> Some(TRUE)]}

\* the optional fields of an updateItem request
UpdateFields ==
    {NoFields,
     [label |-> Some(<<"M">>), title |-> Some(<<>>),
      content |-> None, active |-> Some(FALSE)]}

WithId(id, f) ==
    [id |-> id, label |-> f.label, title |-> f.title,
     content |-> f.content, active |-> f.active]

\* the request of the documented example: {id: "home", title: "Home"}
HomeItem ==
    [id |-> <<"h", "o", "m", "e">>, label |-> None,
     title |-> Some(<<"H", "o", "m", "e">>), content |-> None, active |-> None]

AddItems == {WithId(id, f) : id \in Ids, f \in AddFields} \cup {HomeItem}
DeleteIds == Ids
UpdateOldIds == Ids
UpdateItems == {WithId(id, f) : id \in {None} \cup {Some(i) : i \in Ids},
                                f \in UpdateFields}

\* the inputs of overlapping calls (SpecConc)
ConcIds == {<<"a">>, <<"b">>}
ConcAddItems == {WithId(id, NoFields) : id \in ConcIds}
ConcUpdateItems == {WithId(id, NoFields) : id \in {None, Some(<<"b">>)}}

\* the inputs of calls, overlapping or not, on an initially empty document
\* (SpecEmptyStart): ids with and without case, all optional fields omitted
EmptyStartIds == {<<>>, <<"a">>, <<"A">>}
EmptyStartAddItems == {WithId(id, NoFields) : id \in EmptyStartIds}
EmptyStartUpdateItems ==
    {WithId(id, NoFields) : id \in {None} \cup {Some(i) : i \in EmptyStartIds}}

\* messages of the errors the store reports
StoreErrorMessages == {<<"d", "o", "w", "n">>, <<"b", "u", "s", "y">>}
\* message of the error schema.parse throws
ZodMessage == <<"R", "e", "q", "u", "i", "r", "e", "d">>

\* documents found in the store row at start-up; the store enforces
\* nothing, so an id may be in one sequence only
SidebarA == [id |-> <<"A">>, label |-> <<"L">>, active |-> TRUE]
SidebarB == [id |-> <<"b">>, label |-> <<"L">>, active |-> TRUE]
PageA == [id |-> <<"A">>, title |-> <<"T">>, content |-> <<"C">>]
PageB == [id |-> <<"b">>, title |-> <<"T">>, content |-> <<"C">>]
InitRows ==
    {[config |-> None],
     [config |-> Some(EmptyConfig)],
     [config |-> Some([pages |-> <<PageB>>, sidebar |-> <<SidebarA, SidebarB>>])],
     [config |-> Some([pages |-> <<PageA, PageB>>, sidebar |-> <<SidebarB>>])]}

\* rows in which an id occurs twice in a sequence (nothing in the store
\* forbids it, and addItem and updateItem can produce it)
SidebarB2 == [id |-> <<"b">>, label |-> <<"K">>, active |-> FALSE]
PageB2 == [id |-> <<"b">>, title |-> <<"U">>, content |-> <<"D">>]
DuplicateRows ==
    {[config |-> Some([pages |-> <<PageA, PageB, PageB2>>,
                       sidebar |-> <<SidebarB, SidebarA, SidebarB2>>])],
     [config |-> Some([pages |-> <<PageB>>,
                       sidebar |-> <<SidebarA, SidebarA, SidebarB>>])]}

\* rows whose document lacks one of its two arrays
MalformedRows ==
    {[config |-> Some([pages |-> <<PageB>>])],
     [config |-> Some([sidebar |-> <<SidebarB>>])]}

\* ---------------------------------------------------------------- state
VARIABLES
    variant,    \* which server runs: "stdio", "http" or "config-passing"
    store,      \* the row of table configs: [config |-> None or Some(doc)]
    calls,      \* per caller, the call in flight or last completed
    prev,       \* per caller, the call completed just before a getConfig call
    ncalls,     \* number of mutating calls that reached a handler
    lastWriter, \* the caller whose update the store applied last, or 0
    env,        \* process.env: each variable None (unset) or Some(string)
    boot,       \* start-up of the process: position, exit status, client
    initial,    \* the row as it was before the first call
    given       \* per caller, the args object it handed to the config-passing
                \* addItem, as it is now, or None

vars == <<variant, store, calls, prev, ncalls, lastWriter, env, boot, initial,
          given>>

\* process.env.SUPABASE_URL / SUPABASE_ANON_KEY: unset, empty, or a value
EnvValues == {None, Some(<<>>), Some(<<"u">>)}

\* both variables hold a value
SetEnv == [SUPABASE_URL |-> Some(<<"u">>), SUPABASE_ANON_KEY |-> Some(<<"u">>)]

\* the module is being loaded: nothing checked yet, no client
Starting == [pc |-> "checkUrl", exit |-> None, client |-> FALSE]

\* the module is loaded: exports.supabase holds the client
Booted == [pc |-> "ready", exit |-> None, client |-> TRUE]

IdleCall ==
    [op |-> "none", valid |-> TRUE, arg |-> None, pc |-> "idle", read |-> None,
     cfg |-> None, reads |-> 0, writes |-> 0, err |-> None, resp |-> None]

NewCall(op, arg) ==
    [op |-> op, valid |-> TRUE, arg |-> arg, pc |-> "reading", read |-> None,
     cfg |-> None, reads |-> 0, writes |-> 0, err |-> None, resp |-> None]

\* { content: [{ type: "text", text }] }, with the HTTP status when there is one
ToolResponse(status, text) == [status |-> status, text |-> text, config |-> None]

\* the status of res.json(result): 200 over HTTP, none over stdio
ResultStatus(v) == IF v = "http" THEN 200 ELSE 0

OpName(op) ==
    CASE op = "addItem" -> <<"a", "d", "d", "I", "t", "e", "m">>
      [] op = "deleteItem" -> <<"d", "e", "l", "e", "t", "e", "I", "t", "e", "m">>
      [] op = "updateItem" -> <<"u", "p", "d", "a", "t", "e", "I", "t", "e", "m">>

Mutations == {"addItem", "deleteItem", "updateItem"}

\* what the caller gets from a handler that returned or threw: the returned
\* ToolResponse; an error that left the handler reaches the stdio caller as
\* an error and is answered 400 by the HTTP route's catch
Answer(v, op, r) ==
    IF IsThrown(r)
    THEN IF v = "http"
         THEN ToolResponse(400, ErrorExecutingPrefix \o OpName(op)
                                  \o <<":", " ">> \o r.text)
         ELSE [error |-> r.text]
    ELSE ToolResponse(ResultStatus(v), r.text)

InFlight(c) == c.pc \in {"reading", "writing"}
CanStart(p) == ~InFlight(calls[p])

Init ==
    /\ variant \in {"stdio", "http"}
    /\ store \in InitRows
    /\ calls = [p \in Procs |-> IdleCall]
    /\ prev = [p \in Procs |-> None]
    /\ ncalls = 0
    /\ lastWriter = 0
    /\ env = SetEnv
    /\ boot = Booted
    /\ initial = store
    /\ given = [p \in Procs |-> None]

\* --------------------------------------------------------------- actions
Begin(p, op, arg) ==
    /\ boot.client
    /\ CanStart(p)
    /\ calls' = [calls EXCEPT ![p] = NewCall(op, arg)]
    /\ prev' = [prev EXCEPT ![p] =
                  IF op = "getConfig" /\ calls[p].pc = "done"
                  THEN Some(calls[p]) ELSE None]
    /\ UNCHANGED <<variant, store, lastWriter, env, boot, initial, given>>

\* a mutating call reaches its handler
BeginMutation(p, op, arg) ==
    /\ ncalls < MaxCalls
    /\ ncalls' = ncalls + 1
    /\ Begin(p, op, arg)

\* a client calls the tool / posts a well-formed body
AddItemCall(p, items) ==
    /\ \E item \in items : BeginMutation(p, "addItem", [item |-> item])

DeleteItemCall(p, ids) ==
    \E id \in ids : BeginMutation(p, "deleteItem", [id |-> id])

UpdateItemCall(p, ids, items) ==
    \E oldId \in ids, newItem \in items :
        BeginMutation(p, "updateItem", [oldId |-> oldId, newItem |-> newItem])

\* GET /api/config
GetConfigCall(p) ==
    /\ variant = "http"
    /\ Begin(p, "getConfig", None)
    /\ UNCHANGED ncalls

\* POST with a body the route's schema rejects: schema.parse throws, the
\* route's catch answers 400 and the handler is never called
BadRequest(p) ==
    /\ boot.client
    /\ variant = "http"
    /\ CanStart(p)
    /\ \E op \in Mutations :
         calls' = [calls EXCEPT ![p] =
            [NewCall(op, None) EXCEPT
               !.valid = FALSE,
               !.pc = "done",
               !.resp = Some(ToolResponse(400,
                   ErrorExecutingPrefix \o OpName(op) \o <<":", " ">> \o ZodMessage))]]
    /\ prev' = [prev EXCEPT ![p] = None]
    /\ UNCHANGED <<variant, store, ncalls, lastWriter, env, boot, initial, given>>

\* mutant: the failure text leaves out loadError.message
ReadError_noMessage(p) ==
    /\ calls[p].pc = "reading"
    /\ \E msg \in StoreErrorMessages :
         calls' = [calls EXCEPT ![p] =
            [@ EXCEPT !.pc = "done", !.reads = @ + 1, !.err = Some(msg),
                      !.resp = Some(ToolResponse(
                          IF calls[p].op = "getConfig" THEN 500
                          ELSE ResultStatus(variant),
                          LoadFailedPrefix))]]
    /\ UNCHANGED <<variant, store, prev, ncalls, lastWriter, env, boot, initial, given>>

\* the select resolves with an error: the handler returns its message
ReadError(p) ==
    /\ calls[p].pc = "reading"
    /\ \E msg \in StoreErrorMessages :
         calls' = [calls EXCEPT ![p] =
            [@ EXCEPT !.pc = "done", !.reads = @ + 1, !.err = Some(msg),
                      !.resp = Some(ToolResponse(
                          IF calls[p].op = "getConfig" THEN 500
                          ELSE ResultStatus(variant),
                          LoadFailedPrefix \o msg))]]
    /\ UNCHANGED <<variant, store, prev, ncalls, lastWriter, env, boot, initial, given>>

\* the select resolves with the row; the handler runs up to its next await
ReadOk(p) ==
    /\ calls[p].pc = "reading"
    /\ LET cur == currentConfigOf(store) IN
       IF calls[p].op = "getConfig"
       THEN calls' = [calls EXCEPT ![p] =
               [@ EXCEPT !.pc = "done", !.reads = @ + 1, !.read = Some(store),
                         !.resp = Some([status |-> 200, text |-> <<>>,
                                        config |-> Some(cur)])]]
       ELSE LET r == HandlerOutcome(variant, calls[p], cur) IN
            IF r.write
            THEN calls' = [calls EXCEPT ![p] =
                    [@ EXCEPT !.pc = "writing", !.reads = @ + 1,
                              !.read = Some(store), !.cfg = Some(r.cfg)]]
            ELSE calls' = [calls EXCEPT ![p] =
                    [@ EXCEPT !.pc = "done", !.reads = @ + 1,
                              !.read = Some(store),
                              !.resp = Some(Answer(variant, calls[p].op, r))]]
    /\ UNCHANGED <<variant, store, prev, ncalls, lastWriter, env, boot, initial, given>>

\* mutant: the handler issues the update again after an error
WriteError_retry(p) ==
    /\ calls[p].pc = "writing"
    /\ calls' = [calls EXCEPT ![p] = [@ EXCEPT !.writes = @ + 1]]
    /\ UNCHANGED <<variant, store, prev, ncalls, lastWriter, env, boot, initial, given>>

\* the update resolves with an error: the row is as it was
WriteError(p) ==
    /\ calls[p].pc = "writing"
    /\ \E msg \in StoreErrorMessages :
         calls' = [calls EXCEPT ![p] =
            [@ EXCEPT !.pc = "done", !.writes = @ + 1, !.err = Some(msg),
                      !.resp = Some(ToolResponse(ResultStatus(variant),
                                                 UpdateFailedPrefix \o msg))]]
    /\ UNCHANGED <<variant, store, prev, ncalls, lastWriter, env, boot, initial, given>>

\* mutant: the store keeps the entries of the row that the written document
\* lacks (a merge instead of a replacement)
Updated_merge(row, currentConfig) ==
    LET old == currentConfigOf(row)
        keep(arr, new) == SelectSeq(arr, LAMBDA e : ~some(new, e.id))
    IN  [config |-> Some(
           [pages |-> keep(old.pages, currentConfig.pages) \o currentConfig.pages,
            sidebar |-> keep(old.sidebar, currentConfig.sidebar)
                          \o currentConfig.sidebar])]

\* mutant: pages is appended to what the row holds, sidebar is replaced
Updated_pagesAppended(row, currentConfig) ==
    [config |-> Some([sidebar |-> currentConfig.sidebar,
                      pages |-> currentConfigOf(row).pages \o currentConfig.pages])]

\* the row's config after .update({ config: currentConfig }).eq("id", 1)
Updated(row, currentConfig) == [config |-> Some(currentConfig)]

\* the update resolves without error: the whole document is replaced
WriteOk(p) ==
    /\ calls[p].pc = "writing"
    /\ store' = Updated(store, calls[p].cfg[1])
    /\ calls' = [calls EXCEPT ![p] =
          [@ EXCEPT !.pc = "done", !.writes = @ + 1,
                    !.resp = Some(ToolResponse(ResultStatus(variant),
                                               SuccessText(calls[p])))]]
    /\ lastWriter' = p
    /\ UNCHANGED <<variant, prev, ncalls, env, boot, initial, given>>

\* calls one after another: one caller, each call complete before the next
Next ==
    \E p \in {1} :
        \/ AddItemCall(p, AddItems)
        \/ DeleteItemCall(p, DeleteIds)
        \/ UpdateItemCall(p, UpdateOldIds, UpdateItems)
        \/ GetConfigCall(p)
        \/ BadRequest(p)
        \/ ReadError(p)
        \/ ReadOk(p)
        \/ WriteError(p)
        \/ WriteOk(p)

Spec == Init /\ [][Next]_vars

\* the same calls, the row possibly holding a malformed document
InitFault ==
    /\ variant \in {"stdio", "http"}
    /\ store \in InitRows \cup MalformedRows
    /\ calls = [p \in Procs |-> IdleCall]
    /\ prev = [p \in Procs |-> None]
    /\ ncalls = 0
    /\ lastWriter = 0
    /\ env = SetEnv
    /\ boot = Booted
    /\ initial = store
    /\ given = [p \in Procs |-> None]

SpecFault == InitFault /\ [][Next]_vars

\* the same calls, the row holding a document with a repeated id
InitDuplicate ==
    /\ variant \in {"stdio", "http"}
    /\ store \in DuplicateRows
    /\ calls = [p \in Procs |-> IdleCall]
    /\ prev = [p \in Procs |-> None]
    /\ ncalls = 0
    /\ lastWriter = 0
    /\ env = SetEnv
    /\ boot = Booted
    /\ initial = store
    /\ given = [p \in Procs |-> None]

SpecDuplicate == InitDuplicate /\ [][Next]_vars

\* ------------------------------------------------------------- start-up
\* if (!supabaseUrl) { ...; process.exit(1); }
CheckUrl ==
    /\ boot.pc = "checkUrl"
    /\ boot' = IF Truthy(env.SUPABASE_URL)
               THEN [boot EXCEPT !.pc = "checkAnonKey"]
               ELSE [boot EXCEPT !.pc = "exited", !.exit = Some(1)]
    /\ UNCHANGED <<variant, store, calls, prev, ncalls, lastWriter, env, initial, given>>

\* mutant: the second variable is not checked
CheckAnonKey_unchecked ==
    /\ boot.pc = "checkAnonKey"
    /\ boot' = [boot EXCEPT !.pc = "createClient"]
    /\ UNCHANGED <<variant, store, calls, prev, ncalls, lastWriter, env, initial, given>>

\* if (!supabaseAnonKey) { ...; process.exit(1); }
CheckAnonKey ==
    /\ boot.pc = "checkAnonKey"
    /\ boot' = IF Truthy(env.SUPABASE_ANON_KEY)
               THEN [boot EXCEPT !.pc = "createClient"]
               ELSE [boot EXCEPT !.pc = "exited", !.exit = Some(1)]
    /\ UNCHANGED <<variant, store, calls, prev, ncalls, lastWriter, env, initial, given>>

\* exports.supabase = createClient(supabaseUrl, supabaseAnonKey)
CreateClient ==
    /\ boot.pc = "createClient"
    /\ boot' = [boot EXCEPT !.pc = "ready", !.client = TRUE]
    /\ UNCHANGED <<variant, store, calls, prev, ncalls, lastWriter, env, initial, given>>

\* the process from its first statement, under any environment
InitStartup ==
    /\ variant \in {"stdio", "http"}
    /\ store \in InitRows
    /\ calls = [p \in Procs |-> IdleCall]
    /\ prev = [p \in Procs |-> None]
    /\ ncalls = 0
    /\ lastWriter = 0
    /\ env \in [SUPABASE_URL : EnvValues, SUPABASE_ANON_KEY : EnvValues]
    /\ boot = Starting
    /\ initial = store
    /\ given = [p \in Procs |-> None]

NextStartup ==
    \/ CheckUrl
    \/ CheckAnonKey
    \/ CreateClient
    \/ Next

SpecStartup == InitStartup /\ [][NextStartup]_vars

\* calls, overlapping or not, with the row initially absent or empty
InitEmptyStart ==
    /\ variant \in {"stdio", "http"}
    /\ store \in {[config |-> None], [config |-> Some(EmptyConfig)]}
    /\ calls = [p \in Procs |-> IdleCall]
    /\ prev = [p \in Procs |-> None]
    /\ ncalls = 0
    /\ lastWriter = 0
    /\ env = SetEnv
    /\ boot = Booted
    /\ initial = store
    /\ given = [p \in Procs |-> None]

NextEmptyStart ==
    \E p \in Procs :
        \/ AddItemCall(p, EmptyStartAddItems)
        \/ DeleteItemCall(p, EmptyStartIds)
        \/ UpdateItemCall(p, EmptyStartIds, EmptyStartUpdateItems)
        \/ ReadError(p)
        \/ ReadOk(p)
        \/ WriteError(p)
        \/ WriteOk(p)

SpecEmptyStart == InitEmptyStart /\ [][NextEmptyStart]_vars

\* ------------------------------------- the config-passing addItem server
\* z.object(addItemSchema).parse(args): config with its two arrays is
\* required (item.id is a string in every request the callers make)
ConfigArgsValid(args) ==
    /\ args.config # None
    /\ "pages" \in DOMAIN args.config[1]
    /\ "sidebar" \in DOMAIN args.config[1]

\* const sidebarItem: SidebarItem = {...}
configSidebarItem(item) ==
    [id |-> toLowerCase(item.id),
     label |-> Nullish(item.label, capitalizeFirstLetter(item.id))]

\* const pageItem: Page = {...}
configPageItem(item) ==
    [id |-> toLowerCase(item.id),
     title |-> Nullish(item.title, PagePrefix \o item.id)]

\* what the handler returns, and the args object as the handler leaves it
ConfigResult(text, updatedConfig, args) ==
    [text |-> text, updatedConfig |-> updatedConfig, args |-> args]

\* mutant: the entries are pushed onto the arrays of the config received
configAddItem_push(args) ==
    IF ~ConfigArgsValid(args)
    THEN ConfigResult(AddFaultPrefix \o ZodMessage, None, args)
    ELSE LET currentConfig == args.config[1]
             item == args.item
         IN  IF some(currentConfig.sidebar, item.id)
             THEN ConfigResult(AddFailedSidebarPrefix \o item.id
                                 \o AlreadyExistsSuffix, None, args)
             ELSE IF some(currentConfig.pages, item.id)
             THEN ConfigResult(AddFailedPagePrefix \o item.id
                                 \o AlreadyExistsSuffix, None, args)
             ELSE LET pushed == [currentConfig EXCEPT
                                   !.sidebar = push(@, configSidebarItem(item)),
                                   !.pages = push(@, configPageItem(item))]
                  IN  ConfigResult(AddedPrefix \o item.id, Some(pushed),
                                   [args EXCEPT !.config = Some(pushed)])

\* the handler of the config-passing addItem, from parse to return
configAddItem(args) ==
    IF ~ConfigArgsValid(args)
    THEN ConfigResult(AddFaultPrefix \o ZodMessage, None, args)
    ELSE LET currentConfig == args.config[1]
             item == args.item
         IN  IF some(currentConfig.sidebar, item.id)
             THEN ConfigResult(AddFailedSidebarPrefix \o item.id
                                 \o AlreadyExistsSuffix, None, args)
             ELSE IF some(currentConfig.pages, item.id)
             THEN ConfigResult(AddFailedPagePrefix \o item.id
                                 \o AlreadyExistsSuffix, None, args)
             ELSE ConfigResult(
                    AddedPrefix \o item.id,
                    Some([currentConfig EXCEPT
                            !.sidebar = currentConfig.sidebar
                                          \o <<configSidebarItem(item)>>,
                            !.pages = currentConfig.pages
                                        \o <<configPageItem(item)>>]),
                    args)

\* requests of the config-passing server's callers
ConfigItems ==
    {[id |-> id, label |-> f[1], title |-> f[2]] :
        id \in {<<"a">>, <<"A">>, <<"b">>},
        f \in {<<None, None>>, <<Some(<<"L">>), Some(<<"T">>)>>}}

ConfigDocs ==
    {EmptyConfig,
     [pages |-> <<[id |-> <<"a">>, title |-> <<"T">>],
                  [id |-> <<"b">>, title |-> <<"T">>]>>,
      sidebar |-> <<[id |-> <<"a">>, label |-> <<"L">>]>>]}

ConfigArgs ==
    {[config |-> c, item |-> i] :
        c \in {None} \cup {Some(d) : d \in ConfigDocs}, i \in ConfigItems}

InitConfigPassing ==
    /\ variant = "config-passing"
    /\ store \in InitRows
    /\ calls = [p \in Procs |-> IdleCall]
    /\ prev = [p \in Procs |-> None]
    /\ ncalls = 0
    /\ lastWriter = 0
    /\ env = SetEnv
    /\ boot = Booted
    /\ initial = store
    /\ given = [p \in Procs |-> None]

\* a client calls the tool, handing it args
ConfigAddItemCall(p) ==
    /\ calls[p].pc # "handling"
    /\ ncalls < MaxCalls
    /\ ncalls' = ncalls + 1
    /\ \E args \in ConfigArgs :
         /\ calls' = [calls EXCEPT ![p] =
                        [NewCall("addItem", args) EXCEPT !.pc = "handling"]]
         /\ given' = [given EXCEPT ![p] = Some(args)]
    /\ UNCHANGED <<variant, store, prev, lastWriter, env, boot, initial>>

\* the handler runs from its first statement to its return
ConfigAddItemReturn(p) ==
    /\ calls[p].pc = "handling"
    /\ LET r == configAddItem(given[p][1]) IN
         /\ calls' = [calls EXCEPT ![p] =
               [@ EXCEPT !.pc = "done",
                         !.resp = Some([text |-> r.text,
                                        updatedConfig |-> r.updatedConfig])]]
         /\ given' = [given EXCEPT ![p] = Some(r.args)]
    /\ UNCHANGED <<variant, store, prev, ncalls, lastWriter, env, boot, initial>>

NextConfigPassing ==
    \E p \in Procs :
        \/ ConfigAddItemCall(p)
        \/ ConfigAddItemReturn(p)

SpecConfigPassing == InitConfigPassing /\ [][NextConfigPassing]_vars

\* overlapping calls: the awaits of the callers' handlers interleave freely
NextConc ==
    \E p \in Procs :
        \/ AddItemCall(p, ConcAddItems)
        \/ DeleteItemCall(p, ConcIds)
        \/ UpdateItemCall(p, ConcIds, ConcUpdateItems)
        \/ ReadError(p)
        \/ ReadOk(p)
        \/ WriteError(p)
        \/ WriteOk(p)

SpecConc == Init /\ [][NextConc]_vars

\* overlapping calls, one per caller: every call issued stays on record
NextOnce ==
    \E p \in Procs :
        \/ calls[p] = IdleCall /\ AddItemCall(p, ConcAddItems)
        \/ calls[p] = IdleCall /\ DeleteItemCall(p, ConcIds)
        \/ calls[p] = IdleCall /\ UpdateItemCall(p, ConcIds, ConcUpdateItems)
        \/ ReadError(p)
        \/ ReadOk(p)
        \/ WriteError(p)
        \/ WriteOk(p)

SpecOnce == Init /\ [][NextOnce]_vars

\* the row after the call's handler ran alone on row and the store
\* accepted its update, if it issued one
RunAlone(v, row, call) ==
    LET r == HandlerOutcome(v, call, currentConfigOf(row))
    IN  IF r.write THEN Updated(row, r.cfg) ELSE row

\* ------------------------------------------------- reading the state
Done(c) == c.pc = "done"

\* the text of a completed call's response
TextOf(c) == c.resp[1].text

\* a completed call answered with a "Successfully ..." message
Succeeded(c) == Done(c) /\ StartsWith(TextOf(c), Successfully)

\* the handler returned a failure message without issuing a write
Rejected(c) == Done(c) /\ c.writes = 0 /\ ~Succeeded(c)

\* the row the call's select returned
RowReadBy(c) == c.read[1]

\* the document the call's handler worked on (currentConfig as read)
ReadOf(c) == currentConfigOf(c.read[1])

HasId(arr, id) == \E i \in 1..Len(arr) : arr[i].id = id

Last(arr) == arr[Len(arr)]

\* ---------------------------------------------------------------- C1
\* C1: when addItem is called with an id that no Page and no SidebarItem of
\* the stored document carries, and the read and the write both succeed, the
\* stored document is the document read with one SidebarItem appended to
\* sidebar and one Page appended to pages; the two new entries carry the same
\* id, item.id (stdio) or its lower-cased form (HTTP).
C1_AddAppendsOnePair ==
    \A p \in Procs :
        LET c == calls[p] IN
        (/\ c.op = "addItem" /\ Succeeded(c)
         /\ ~HasId(ReadOf(c).sidebar, c.arg.item.id)
         /\ ~HasId(ReadOf(c).pages, c.arg.item.id))
        => LET old == ReadOf(c)
               new == store.config[1]
               id == IF variant = "http" THEN toLowerCase(c.arg.item.id)
                                         ELSE c.arg.item.id
           IN  /\ store.config # None
               /\ Len(new.sidebar) = Len(old.sidebar) + 1
               /\ Len(new.pages) = Len(old.pages) + 1
               /\ SubSeq(new.sidebar, 1, Len(old.sidebar)) = old.sidebar
               /\ SubSeq(new.pages, 1, Len(old.pages)) = old.pages
               /\ Last(new.sidebar).id = id
               /\ Last(new.pages).id = id

\* an HTTP addItem with an upper-case id succeeded on a non-empty document
C1_Witness ==
    \E p \in Procs :
        /\ variant = "http"
        /\ calls[p].op = "addItem" /\ Succeeded(calls[p])
        /\ calls[p].arg.item.id = <<"A">>
        /\ Len(ReadOf(calls[p]).pages) > 0

\* ---------------------------------------------------------------- C2
\* C2: addItem called with an id that a SidebarItem or a Page of the stored
\* document already carries issues no write, leaves the stored document as
\* it was read and returns a failure message that contains the id.
C2_AddDuplicateRejected ==
    \A p \in Procs :
        LET c == calls[p] IN
        (/\ c.op = "addItem" /\ c.read # None
         /\ \/ HasId(ReadOf(c).sidebar, c.arg.item.id)
            \/ HasId(ReadOf(c).pages, c.arg.item.id))
        => /\ Rejected(c)
           /\ store = RowReadBy(c)
           /\ Contains(TextOf(c), c.arg.item.id)

\* addItem was rejected for an id that only a Page carries
C2_Witness ==
    \E p \in Procs :
        LET c == calls[p] IN
        /\ c.op = "addItem" /\ Done(c) /\ c.read # None
        /\ c.arg.item.id = <<"A">>
        /\ HasId(ReadOf(c).pages, c.arg.item.id)
        /\ ~HasId(ReadOf(c).sidebar, c.arg.item.id)
        /\ ~Succeeded(c)

\* ---------------------------------------------------------------- C3
NoDuplicateIds(arr) ==
    \A i, j \in 1..Len(arr) : i # j => arr[i].id # arr[j].id

\* C3: starting from a document without duplicate ids, after any sequence of
\* non-overlapping addItem, deleteItem and updateItem calls no two Pages of
\* the stored document share an id and no two of its SidebarItems share an id.
C3_IdsStayUnique ==
    LET doc == currentConfigOf(store)
    IN  NoDuplicateIds(doc.pages) /\ NoDuplicateIds(doc.sidebar)

\* ---------------------------------------------------------------- C4
\* the value a field has after an update that keeps omitted fields
Kept(supplied, before) == IF supplied = None THEN before ELSE supplied[1]

\* C4: after a successful updateItem(oldId, newItem) whose newItem.id is
\* omitted or equal to oldId, the matched SidebarItem and Page have id oldId,
\* every supplied field has the supplied value and every omitted field the
\* value it had before; in the stdio and in the HTTP variant.
C4_UpdateKeepsOmittedFields ==
    \A p \in Procs :
        LET c == calls[p] IN
        (/\ c.op = "updateItem" /\ Succeeded(c)
         /\ c.arg.newItem.id \in {None, Some(c.arg.oldId)}
         /\ lastWriter = p)
        => LET old == ReadOf(c)
               new == store.config[1]
               n == c.arg.newItem
               si == findIndex(old.sidebar, c.arg.oldId)
               pi == findIndex(old.pages, c.arg.oldId)
           IN  /\ si # -1 =>
                    /\ new.sidebar[si].id = c.arg.oldId
                    /\ new.sidebar[si].label = Kept(n.label, old.sidebar[si].label)
                    /\ new.sidebar[si].active = Kept(n.active, old.sidebar[si].active)
               /\ pi # -1 =>
                    /\ new.pages[pi].id = c.arg.oldId
                    /\ new.pages[pi].title = Kept(n.title, old.pages[pi].title)
                    /\ new.pages[pi].content = Kept(n.content, old.pages[pi].content)

\* ---------------------------------------------------------------- C5
\* some entry of arr other than the one at index skip carries id
OtherHasId(arr, skip, id) ==
    \E i \in 1..Len(arr) : i # skip /\ arr[i].id = id

\* C5: updateItem with an oldId the document contains and a newItem.id
\* different from oldId, when an entry other than the one being updated
\* already carries the id the update would store, returns a failure message,
\* issues no write and leaves the stored document unchanged.
C5_UpdateCollisionRejected ==
    \A p \in Procs :
        LET c == calls[p] IN
        (/\ c.op = "updateItem" /\ c.read # None
         /\ c.arg.newItem.id # None
         /\ c.arg.newItem.id[1] # c.arg.oldId
         /\ LET old == ReadOf(c)
                si == findIndex(old.sidebar, c.arg.oldId)
                pi == findIndex(old.pages, c.arg.oldId)
                stored == updateItemStoredId(variant, c.arg.oldId, c.arg.oldId,
                                             c.arg.newItem)
            IN  /\ si # -1 \/ pi # -1
                /\ \/ OtherHasId(old.sidebar, si, stored)
                   \/ OtherHasId(old.pages, pi, stored))
        => /\ Rejected(c)
           /\ store = RowReadBy(c)

\* ---------------------------------------------------------------- C6
\* two addItem calls with distinct fresh ids read the same document and both
\* returned a success message; q's write was applied last
BothAddedFromSameRead(p, q) ==
    /\ p # q
    /\ calls[p].op = "addItem" /\ Succeeded(calls[p])
    /\ calls[q].op = "addItem" /\ Succeeded(calls[q])
    /\ RowReadBy(calls[p]) = RowReadBy(calls[q])
    /\ addItemStoredId(variant, calls[p].arg.item)
         # addItemStoredId(variant, calls[q].arg.item)
    /\ lastWriter = q

\* C6: when two overlapping addItem calls with distinct fresh ids read the
\* same prior document and both writes succeed, both return a success
\* message and yet the stored document is the one the later writer wrote: it
\* holds the later writer's entries and none with the earlier writer's id.
C6_LastWriteWins ==
    \A p, q \in Procs :
        BothAddedFromSameRead(p, q)
        => LET doc == currentConfigOf(store)
               idP == addItemStoredId(variant, calls[p].arg.item)
               idQ == addItemStoredId(variant, calls[q].arg.item)
           IN  /\ store.config = calls[q].cfg
               /\ HasId(doc.sidebar, idQ) /\ HasId(doc.pages, idQ)
               /\ ~HasId(doc.sidebar, idP) /\ ~HasId(doc.pages, idP)

\* the lost update happened
C6_Witness == \E p, q \in Procs : BothAddedFromSameRead(p, q)

\* ---------------------------------------------------------------- C7
\* arr without its first entry that carries id
RemoveFirst(arr, id) ==
    LET first == CHOOSE i \in 1..Len(arr) :
                    arr[i].id = id /\ \A j \in 1..(i - 1) : arr[j].id # id
    IN  [k \in 1..(Len(arr) - 1) |-> IF k < first THEN arr[k] ELSE arr[k + 1]]

\* the update of the call resolved with an error
WriteFailed(c) ==
    Done(c) /\ c.writes = 1 /\ StartsWith(TextOf(c), UpdateFailedPrefix)

\* C7: deleteItem(id) on a document where id occurs in exactly one of the two
\* sequences is not rejected: it goes on to the write and, unless the store
\* fails the write, returns a success message; the stored document is then
\* the document read with the first entry carrying id removed from the
\* sequence that contains it and the other sequence unchanged.
C7_DeleteFromOneSequence ==
    \A p \in Procs :
        LET c == calls[p] IN
        (/\ c.op = "deleteItem" /\ c.read # None
         /\ HasId(ReadOf(c).sidebar, c.arg.id) # HasId(ReadOf(c).pages, c.arg.id))
        => LET old == ReadOf(c)
               id == c.arg.id
           IN  /\ c.cfg # None
               /\ Done(c) => Succeeded(c) \/ WriteFailed(c)
               /\ Succeeded(c) =>
                    store.config = Some(
                      [sidebar |-> IF HasId(old.sidebar, id)
                                   THEN RemoveFirst(old.sidebar, id)
                                   ELSE old.sidebar,
                       pages |-> IF HasId(old.pages, id)
                                 THEN RemoveFirst(old.pages, id)
                                 ELSE old.pages])

\* a deleteItem succeeded for an id that only the sidebar carried, among
\* other entries
C7_Witness ==
    \E p \in Procs :
        LET c == calls[p] IN
        /\ c.op = "deleteItem" /\ Succeeded(c)
        /\ HasId(ReadOf(c).sidebar, c.arg.id)
        /\ ~HasId(ReadOf(c).pages, c.arg.id)
        /\ Len(ReadOf(c).sidebar) > 1
        /\ Len(ReadOf(c).pages) > 0

\* ---------------------------------------------------------------- C8
\* the id a deleteItem or updateItem call looks up
TargetId(c) == IF c.op = "deleteItem" THEN c.arg.id ELSE c.arg.oldId

\* C8: deleteItem(id) and updateItem(oldId, newItem) called with an id that
\* neither sequence of the stored document contains issue no write, leave
\* the stored document unchanged and return a not-found message that
\* contains the id.
C8_AbsentIdRejected ==
    \A p \in Procs :
        LET c == calls[p] IN
        (/\ c.op \in {"deleteItem", "updateItem"} /\ c.read # None
         /\ ~HasId(ReadOf(c).sidebar, TargetId(c))
         /\ ~HasId(ReadOf(c).pages, TargetId(c)))
        => /\ Rejected(c)
           /\ store = RowReadBy(c)
           /\ Contains(TextOf(c), NotFoundSuffix)
           /\ Contains(TextOf(c), TargetId(c))

\* an updateItem that would rename an absent id was answered
C8_Witness ==
    \E p \in Procs :
        LET c == calls[p] IN
        /\ c.op = "updateItem" /\ Done(c) /\ c.read # None
        /\ c.arg.newItem.id = Some(<<"b">>)
        /\ c.arg.oldId = <<"A">>
        /\ Len(ReadOf(c).pages) > 0
        /\ ~HasId(ReadOf(c).sidebar, <<"A">>)
        /\ ~HasId(ReadOf(c).pages, <<"A">>)

\* ---------------------------------------------------------------- C9
\* the id a mutating call targets
MutationTarget(m) ==
    CASE m.op = "addItem" -> m.arg.item.id
      [] m.op = "deleteItem" -> m.arg.id
      [] m.op = "updateItem" -> m.arg.oldId

\* the index at which the mutation leaves its new or rewritten entry in a
\* sequence that was arr before it, or -1
MutatedIndex(m, arr) ==
    CASE m.op = "addItem" -> Len(arr) + 1
      [] m.op = "deleteItem" -> -1
      [] m.op = "updateItem" -> findIndex(arr, m.arg.oldId)

\* the entries of arr that do not carry id x and are not at index skip, in
\* their order
Others(arr, x, skip) ==
    LET idx == SelectSeq([i \in 1..Len(arr) |-> i],
                         LAMBDA i : i # skip /\ arr[i].id # x)
    IN  [k \in 1..Len(idx) |-> arr[idx[k]]]

\* C9: a getConfig that follows a successful addItem, deleteItem or
\* updateItem targeting id x (no call overlapping) returns the document that
\* mutation wrote, in which every Page and SidebarItem whose id is not x,
\* other than the added or rewritten entry, is present with the field values
\* and in the relative order it had in the document before the mutation.
C9_GetConfigAfterMutation ==
    \A p \in Procs :
        LET c == calls[p] IN
        (/\ c.op = "getConfig" /\ Done(c) /\ c.resp[1].status = 200
         /\ prev[p] # None
         /\ prev[p][1].op \in Mutations
         /\ Succeeded(prev[p][1]))
        => LET m == prev[p][1]
               old == ReadOf(m)
               new == c.resp[1].config[1]
               x == MutationTarget(m)
           IN  /\ c.resp[1].config = m.cfg
               /\ Others(new.sidebar, x, MutatedIndex(m, old.sidebar))
                    = Others(old.sidebar, x, -1)
               /\ Others(new.pages, x, MutatedIndex(m, old.pages))
                    = Others(old.pages, x, -1)

\* getConfig answered after a successful deleteItem that left entries behind
C9_Witness ==
    \E p \in Procs :
        LET c == calls[p] IN
        /\ c.op = "getConfig" /\ Done(c) /\ c.resp[1].status = 200
        /\ prev[p] # None
        /\ prev[p][1].op = "deleteItem"
        /\ Succeeded(prev[p][1])
        /\ Len(c.resp[1].config[1].sidebar) > 0

\* --------------------------------------------------------------- C10
\* the select of the call resolved with an error
ReadFailed(c) == Done(c) /\ c.reads = 1 /\ c.read = None

CarriesStoreMessage(c) ==
    \E msg \in StoreErrorMessages : Contains(TextOf(c), msg)

\* C10: in the HTTP variant a POST body that does not match the request
\* shape is answered 400 and reaches neither the handler nor the store; a
\* storage read or write failure during addItem, deleteItem or updateItem is
\* answered 500 with the failure message; GET /api/config answers a read
\* failure with 500.
C10_HttpStatusCodes ==
    \A p \in Procs :
        LET c == calls[p] IN
        (variant = "http" /\ Done(c))
        => /\ ~c.valid =>
                c.resp[1].status = 400 /\ c.reads = 0 /\ c.writes = 0
           /\ (c.op \in Mutations /\ (ReadFailed(c) \/ WriteFailed(c))) =>
                c.resp[1].status = 500 /\ CarriesStoreMessage(c)
           /\ (c.op = "getConfig" /\ ReadFailed(c)) => c.resp[1].status = 500

\* --------------------------------------------------------------- C11
\* C11: every invocation of a stdio tool handler, whatever its outcome
\* (success, duplicate or absent id, store read or write error, a fault
\* raised while handling a document that lacks an array), ends with exactly
\* one response of the shape {content: [{type: "text", text}]}; no thrown
\* error reaches the caller.
C11_StdioAlwaysResponds ==
    \A p \in Procs :
        LET c == calls[p] IN
        (variant = "stdio" /\ c.op \in Mutations)
        => /\ InFlight(c) => c.resp = None
           /\ Done(c) => /\ Len(c.resp) = 1
                         /\ "text" \in DOMAIN c.resp[1]
                         /\ "error" \notin DOMAIN c.resp[1]

\* a stdio deleteItem met a document without its sidebar array and answered
\* with the catch clause's text
C11_Witness ==
    \E p \in Procs :
        LET c == calls[p] IN
        /\ variant = "stdio" /\ c.op = "deleteItem" /\ Done(c)
        /\ c.read # None
        /\ "sidebar" \notin DOMAIN ReadOf(c)
        /\ "text" \in DOMAIN c.resp[1]
        /\ StartsWith(c.resp[1].text, DeleteFaultPrefix)

\* --------------------------------------------------------------- C12
\* the document the example expects
HomeDocument ==
    [pages |-> <<[id |-> <<"h", "o", "m", "e">>,
                  title |-> <<"H", "o", "m", "e">>, content |-> <<>>]>>,
     sidebar |-> <<[id |-> <<"h", "o", "m", "e">>,
                    label |-> <<"H", "o", "m", "e">>, active |-> FALSE]>>]

\* C12: starting from the document {pages: [], sidebar: []}, a successful
\* addItem({id: "home", title: "Home"}) leaves the stored document equal to
\* {pages: [{id: "home", title: "Home", content: ""}],
\*  sidebar: [{id: "home", label: "Home", active: false}]}, in the stdio and
\* in the HTTP variant.
C12_HomeExample ==
    \A p \in Procs :
        LET c == calls[p] IN
        (/\ c.op = "addItem" /\ Succeeded(c)
         /\ c.arg.item = HomeItem
         /\ ReadOf(c) = EmptyConfig
         /\ lastWriter = p)
        => store.config = Some(HomeDocument)

\* --------------------------------------------------------------- C13
IdsOf(arr) == {arr[i].id : i \in 1..Len(arr)}

\* C13: in every state reachable from the empty document by addItem,
\* deleteItem and updateItem calls, overlapping or not, the ids occurring in
\* pages are the ids occurring in sidebar.
C13_LockStep ==
    LET doc == currentConfigOf(store)
    IN  IdsOf(doc.pages) = IdsOf(doc.sidebar)

\* one caller added an entry to the empty document and another caller then
\* renamed it
C13_Witness ==
    \E p, q \in Procs :
        /\ p # q
        /\ calls[p].op = "addItem" /\ Succeeded(calls[p])
        /\ ReadOf(calls[p]) = EmptyConfig
        /\ calls[q].op = "updateItem" /\ Succeeded(calls[q])
        /\ calls[q].arg.newItem.id # None
        /\ RowReadBy(calls[q]).config = calls[p].cfg
        /\ Len(currentConfigOf(store).pages) > 0

\* --------------------------------------------------------------- C14
\* the checks of the call's handler pass on the document it read
ValidationPasses(c) ==
    LET doc == ReadOf(c) IN
    CASE c.op = "addItem" ->
           ~HasId(doc.sidebar, c.arg.item.id) /\ ~HasId(doc.pages, c.arg.item.id)
      [] c.op = "deleteItem" ->
           HasId(doc.sidebar, c.arg.id) \/ HasId(doc.pages, c.arg.id)
      [] c.op = "updateItem" ->
           /\ HasId(doc.sidebar, c.arg.oldId) \/ HasId(doc.pages, c.arg.oldId)
           /\ ~(/\ Truthy(c.arg.newItem.id)
                /\ c.arg.newItem.id[1] # c.arg.oldId
                /\ \/ HasId(doc.sidebar, c.arg.newItem.id[1])
                   \/ HasId(doc.pages, c.arg.newItem.id[1]))

\* C14: every invocation of addItem, deleteItem or updateItem has exactly
\* one store read, resolved before any write is issued, and at most one
\* store write; the write is issued only when the read succeeded and the
\* handler's checks passed, and it is not issued again after a write error.
C14_OneReadAtMostOneWrite ==
    \A p \in Procs :
        LET c == calls[p] IN
        (c.op \in Mutations /\ c.valid)
        => /\ c.reads <= 1 /\ c.writes <= 1
           /\ c.pc = "reading" => c.reads = 0 /\ c.writes = 0
           /\ c.pc = "writing" => c.writes = 0
           /\ Done(c) => c.reads = 1
           /\ (c.pc = "writing" \/ c.writes > 0) =>
                 /\ c.reads = 1
                 /\ c.read # None
                 /\ ValidationPasses(c)
           /\ WriteFailed(c) => c.writes = 1

\* a call ended on a write error
C14_Witness ==
    \E p \in Procs :
        /\ calls[p].op = "updateItem"
        /\ WriteFailed(calls[p])

\* --------------------------------------------------------------- C15
\* C15: GET /api/config issues no store write and returns the stored config
\* value exactly as read when it is present and {pages: [], sidebar: []}
\* when it is absent; addItem, deleteItem and updateItem treat an absent
\* value as {pages: [], sidebar: []}: addItem goes on to write a document of
\* one page and one sidebar item, the other two answer not found.
C15_AbsentConfigIsEmpty ==
    \A p \in Procs :
        LET c == calls[p] IN
        /\ c.op = "getConfig" =>
             /\ c.writes = 0 /\ c.pc # "writing" /\ c.cfg = None
             /\ (Done(c) /\ c.read # None) =>
                  /\ store = RowReadBy(c)
                  /\ c.resp[1].status = 200
                  /\ c.resp[1].config =
                       IF RowReadBy(c).config = None THEN Some(EmptyConfig)
                       ELSE RowReadBy(c).config
        /\ (c.op \in Mutations /\ c.read # None /\ RowReadBy(c).config = None) =>
             IF c.op = "addItem"
             THEN /\ c.cfg # None
                  /\ Len(c.cfg[1].pages) = 1
                  /\ Len(c.cfg[1].sidebar) = 1
             ELSE /\ Rejected(c)
                  /\ Contains(TextOf(c), NotFoundSuffix)

\* GET /api/config answered while the stored value was absent
C15_Witness ==
    \E p \in Procs :
        LET c == calls[p] IN
        /\ c.op = "getConfig" /\ Done(c) /\ c.read # None
        /\ RowReadBy(c).config = None
        /\ c.resp[1].config = Some(EmptyConfig)

\* --------------------------------------------------------------- C16
\* C16: at start-up, if SUPABASE_URL is unset or SUPABASE_ANON_KEY is unset
\* the store client is never created and the process, once stopped, has
\* exited with status 1; the client exists only when both variables are
\* set, and no call is served without it.
C16_ExitWhenEnvUnset ==
    /\ (env.SUPABASE_URL = None \/ env.SUPABASE_ANON_KEY = None) =>
         /\ ~boot.client
         /\ boot.pc \in {"checkUrl", "checkAnonKey", "exited"}
         /\ (env.SUPABASE_URL = None /\ boot.pc # "checkUrl") => boot.pc = "exited"
    /\ boot.pc = "exited" <=> boot.exit = Some(1)
    /\ boot.exit # None => ~boot.client
    /\ boot.pc \in {"createClient", "ready"} =>
         /\ env.SUPABASE_URL # None
         /\ env.SUPABASE_ANON_KEY # None
    /\ boot.client <=> boot.pc = "ready"
    /\ ~boot.client => \A p \in Procs : calls[p] = IdleCall

\* SUPABASE_URL holds a value, SUPABASE_ANON_KEY is unset: exited with 1
C16_Witness ==
    /\ env.SUPABASE_URL # None
    /\ env.SUPABASE_ANON_KEY = None
    /\ boot.pc = "exited"
    /\ boot.exit = Some(1)
    /\ ~boot.client

\* --------------------------------------------------------------- C17
\* some entry of arr carries an id equal to id up to letter case, none
\* carries id itself
CaseVariantOnly(arr, id) ==
    /\ ~HasId(arr, id)
    /\ \E i \in 1..Len(arr) : toLowerCase(arr[i].id) = toLowerCase(id)

\* C17: in the HTTP variant addItem is rejected as a duplicate exactly when
\* an entry of the document read carries item.id as given; otherwise it goes
\* on to write a document whose new SidebarItem and new Page both carry the
\* lower-cased item.id, and so an id that differs from a stored id only in
\* letter case is not rejected.
C17_FoldedStoreRawCheck ==
    \A p \in Procs :
        LET c == calls[p] IN
        (variant = "http" /\ c.op = "addItem" /\ c.valid /\ c.read # None) =>
            LET doc == ReadOf(c)
                id == c.arg.item.id
            IN  /\ (HasId(doc.sidebar, id) \/ HasId(doc.pages, id)) =>
                     /\ Rejected(c)
                     /\ Contains(TextOf(c), AlreadyExistsSuffix)
                /\ ~(HasId(doc.sidebar, id) \/ HasId(doc.pages, id)) =>
                     /\ ~Rejected(c)
                     /\ c.cfg # None
                     /\ Last(c.cfg[1].sidebar).id = toLowerCase(id)
                     /\ Last(c.cfg[1].pages).id = toLowerCase(id)
                /\ (CaseVariantOnly(doc.sidebar, id) /\ ~HasId(doc.pages, id)) =>
                     ~Rejected(c)

\* addItem "A" read a document whose sidebar holds "a" and was stored: the
\* sidebar now carries "a" twice
C17_Witness ==
    /\ variant = "http"
    /\ \E p \in Procs :
         LET c == calls[p] IN
         /\ c.op = "addItem" /\ c.valid /\ Succeeded(c)
         /\ c.arg.item.id = <<"A">>
         /\ CaseVariantOnly(ReadOf(c).sidebar, <<"A">>)
         /\ store.config = c.cfg
         /\ Cardinality({i \in 1..Len(store.config[1].sidebar) :
                            store.config[1].sidebar[i].id = <<"a">>}) = 2

\* --------------------------------------------------------------- C18
\* the store answered the call's update with an error
UpdateErrored(c) == Done(c) /\ c.writes = 1 /\ c.err # None

\* C18: when the store read fails, addItem, deleteItem and updateItem return
\* a message containing the store's error message and issue no write; when
\* the store write fails, the handler returns a message containing the write
\* error's message, not a success message, and the stored row is the row
\* that was read.
C18_StoreErrorsReported ==
    \A p \in Procs :
        LET c == calls[p] IN
        (c.op \in Mutations /\ c.valid) =>
            /\ ReadFailed(c) =>
                 /\ c.err # None
                 /\ Contains(TextOf(c), c.err[1])
                 /\ ~Succeeded(c)
                 /\ c.writes = 0
                 /\ c.cfg = None
            /\ UpdateErrored(c) =>
                 /\ c.read # None
                 /\ Contains(TextOf(c), c.err[1])
                 /\ ~Succeeded(c)
                 /\ store = RowReadBy(c)
            /\ (Done(c) /\ c.err # None) => (ReadFailed(c) \/ UpdateErrored(c))
            /\ Succeeded(c) => c.err = None

\* a deleteItem read a stored document and the store refused its update
\* with "busy"
C18_Witness ==
    \E p \in Procs :
        LET c == calls[p] IN
        /\ c.op = "deleteItem" /\ UpdateErrored(c)
        /\ c.err = Some(<<"b", "u", "s", "y">>)
        /\ RowReadBy(c).config # None

\* --------------------------------------------------------------- C19
\* the callers whose call reached a handler
Issuers == {p \in Procs : calls[p].op \in Mutations /\ calls[p].valid}

\* the rows stored in the course of running, one after another and each to
\* completion, the calls of some of the callers ps in some order, from row
RECURSIVE SequentiallyStored(_, _)
SequentiallyStored(row, ps) ==
    {row} \cup UNION {SequentiallyStored(RunAlone(variant, row, calls[p]), ps \ {p})
                        : p \in ps}

\* C19: however the read and write steps of overlapping addItem, deleteItem
\* and updateItem calls interleave, the row stored is one that running some
\* of the issued calls one after another, from the initial row, also stores.
C19_StoredIsSequential ==
    store \in SequentiallyStored(initial, Issuers)

\* two calls worked on the same row and both were stored; what is stored is
\* what the second alone stores, and not what the two in a row store
C19_Witness ==
    \E p, q \in Procs :
        /\ p # q
        /\ Succeeded(calls[p]) /\ Succeeded(calls[q])
        /\ calls[p].read = Some(initial) /\ calls[q].read = Some(initial)
        /\ lastWriter = q
        /\ store = RunAlone(variant, initial, calls[q])
        /\ store # RunAlone(variant, RunAlone(variant, initial, calls[p]), calls[q])
        /\ store # RunAlone(variant, RunAlone(variant, initial, calls[q]), calls[p])

\* --------------------------------------------------------------- C20
\* q's deleteItem names the id string of p's stored addItem and worked on
\* the row p's addItem stored; p's addItem worked on a document without
\* that id
DeleteFollowsAdd(p, q) ==
    LET a == calls[p]
        d == calls[q]
    IN  /\ p # q
        /\ a.op = "addItem" /\ Succeeded(a)
        /\ ~HasId(ReadOf(a).sidebar, a.arg.item.id)
        /\ ~HasId(ReadOf(a).pages, a.arg.item.id)
        /\ d.op = "deleteItem" /\ d.read # None
        /\ d.arg.id = a.arg.item.id
        /\ RowReadBy(d) = Updated(RowReadBy(a), a.cfg[1])

\* C20: for every id string and every document not containing that id, a
\* successful addItem with that id followed, with no call in between, by
\* deleteItem with the same id string is not rejected, and once the delete
\* is stored the stored document equals the document before the addItem;
\* in the stdio and in the HTTP variant.
C20_AddThenDeleteRestores ==
    \A p, q \in Procs :
        DeleteFollowsAdd(p, q) =>
            /\ ~Rejected(calls[q])
            /\ (Succeeded(calls[q]) /\ lastWriter = q) =>
                  currentConfigOf(store) = ReadOf(calls[p])

\* --------------------------------------------------------------- C21
\* the least index of arr whose entry carries id, or 0
FirstIndex(arr, id) ==
    IF HasId(arr, id)
    THEN CHOOSE i \in 1..Len(arr) :
            arr[i].id = id /\ \A j \in 1..(i - 1) : arr[j].id # id
    ELSE 0

\* new is old with at most the entry at index i rewritten
SameButAt(old, new, i) ==
    /\ Len(new) = Len(old)
    /\ \A k \in 1..Len(old) : k # i => new[k] = old[k]

\* new is old without its first entry carrying id, if it has one
FirstRemoved(old, new, id) ==
    IF HasId(old, id) THEN new = RemoveFirst(old, id) ELSE new = old

\* C21: a successful updateItem leaves pages and sidebar at their lengths
\* and rewrites, in each, at most the entry at the index where oldId is
\* first found, every other index keeping its entry; a successful deleteItem
\* removes from each sequence at most its first entry carrying the id and
\* keeps the others in their order.
C21_UpdateDeleteFrame ==
    \A p \in Procs :
        LET c == calls[p] IN
        (c.op \in {"updateItem", "deleteItem"} /\ Succeeded(c) /\ lastWriter = p) =>
            LET old == ReadOf(c)
                new == currentConfigOf(store)
            IN  IF c.op = "updateItem"
                THEN LET si == FirstIndex(old.sidebar, c.arg.oldId)
                         pi == FirstIndex(old.pages, c.arg.oldId)
                     IN  /\ SameButAt(old.sidebar, new.sidebar, si)
                         /\ SameButAt(old.pages, new.pages, pi)
                         /\ si # 0 => new.sidebar[si].id =
                              updateItemStoredId(variant, old.sidebar[si].id,
                                                 c.arg.oldId, c.arg.newItem)
                         /\ pi # 0 => new.pages[pi].id =
                              updateItemStoredId(variant, old.pages[pi].id,
                                                 c.arg.oldId, c.arg.newItem)
                ELSE /\ FirstRemoved(old.sidebar, new.sidebar, c.arg.id)
                     /\ FirstRemoved(old.pages, new.pages, c.arg.id)
                     /\ Len(old.sidebar) - Len(new.sidebar) \in {0, 1}
                     /\ Len(old.pages) - Len(new.pages) \in {0, 1}

\* updateItem rewrote the first of two sidebar entries carrying oldId; the
\* second is as it was
C21_Witness ==
    \E p \in Procs :
        LET c == calls[p] IN
        /\ c.op = "updateItem" /\ Succeeded(c) /\ lastWriter = p
        /\ LET old == ReadOf(c).sidebar
               new == currentConfigOf(store).sidebar
               si == FirstIndex(old, c.arg.oldId)
           IN  /\ si # 0
               /\ \E k \in (si + 1)..Len(old) : old[k].id = c.arg.oldId
               /\ new[si] # old[si]

\* --------------------------------------------------------------- C22
\* arr with one entry appended
OneAppended(arr, new) ==
    /\ Len(new) = Len(arr) + 1
    /\ SubSeq(new, 1, Len(arr)) = arr

\* C22: the config-passing addItem reads and writes nothing in the store and
\* leaves the args it was given as they were; when no entry of the config
\* carries item.id it returns a success message and an updatedConfig whose
\* sidebar and pages are the config's with one entry appended, the two new
\* entries carrying the lower-cased item.id; when an entry carries item.id it
\* returns a failure message and no updatedConfig.
C22_ConfigPassingIsPure ==
    /\ store = initial
    /\ \A p \in Procs :
         LET c == calls[p] IN
         /\ c.reads = 0 /\ c.writes = 0 /\ c.read = None
         /\ c.pc # "idle" => given[p] = Some(c.arg)
         /\ (Done(c) /\ c.arg.config # None) =>
              LET doc == c.arg.config[1]
                  id == c.arg.item.id
                  u == c.resp[1].updatedConfig
              IN  IF HasId(doc.sidebar, id) \/ HasId(doc.pages, id)
                  THEN /\ u = None
                       /\ ~Succeeded(c)
                       /\ Contains(TextOf(c), id \o AlreadyExistsSuffix)
                  ELSE /\ Succeeded(c)
                       /\ u # None
                       /\ OneAppended(doc.sidebar, u[1].sidebar)
                       /\ OneAppended(doc.pages, u[1].pages)
                       /\ Last(u[1].sidebar).id = toLowerCase(id)
                       /\ Last(u[1].pages).id = toLowerCase(id)
         /\ (Done(c) /\ c.arg.config = None) =>
              /\ c.resp[1].updatedConfig = None
              /\ ~Succeeded(c)

\* an addItem given a config with entries returned an updatedConfig with one
\* more sidebar entry; the config the caller holds is the one it handed over
C22_Witness ==
    \E p \in Procs :
        LET c == calls[p] IN
        /\ Done(c) /\ Succeeded(c)
        /\ c.arg.config # None
        /\ Len(c.arg.config[1].sidebar) = 1
        /\ c.resp[1].updatedConfig # None
        /\ Len(c.resp[1].updatedConfig[1].sidebar) = 2
        /\ given[p] = Some(c.arg)

====
